---- MODULE Spec2Model ----
(***************************************************************************)
(* Model of the quest lifecycle of EnochianCore (src/src/core.rs) and of   *)
(* the state-transition log TracStateManager                               *)
(* (src/story-engine/core/trac_state_manager.rs).                          *)
(*                                                                         *)
(* f64 quantities (authenticity, mastery, relationship, reputation) are    *)
(* kept in hundredths as integers: 0.95 is 95, 1.0 is 100, -1.0 is -100.   *)
(* Fields that no operation of the model reads or writes after             *)
(* construction (titles, descriptions, wall-clock last_update strings)     *)
(* are left out of the records.                                            *)
(***************************************************************************)
EXTENDS Integers, Sequences, FiniteSets, TLC

VARIABLES
    game_states,          \* EnochianCore.game_states: player id -> GameState
    quest_registry,       \* EnochianCore.quest_registry: quest id -> QuestData
    current_state,        \* TracStateManager.current_state: Option<StoryState>
    pending_transitions,  \* TracStateManager.pending_transitions
    state_history,        \* TracStateManager.state_history
    ret                   \* the value returned by the last call

coreVars == <<game_states, quest_registry>>

tracVars == <<current_state, pending_transitions, state_history>>

vars == <<game_states, quest_registry, current_state, pending_transitions,
          state_history, ret>>

(***************************************************************************)
(* Bounds of the model.                                                    *)
(***************************************************************************)
MaxOps == 4          \* successful start_quest/complete_quest calls in a run
MaxHistory == 3      \* entries of TracStateManager.state_history
MaxPending == 2      \* entries of TracStateManager.pending_transitions
MaxRitualHistory == 7  \* entries of state_history in the runs of SpecEnergy
MaxItems == 2        \* entries of StoryState.sacred_items in the runs of SpecGrants

PlayerIds == {"p1", "p2"}
QuestIds == {"q1", "q2", "q3", "q4"}

(***************************************************************************)
(* Program constants.                                                      *)
(***************************************************************************)
AuthenticityThreshold == 95      \* SystemConfig::default, 0.95
MaxConcurrentQuests == 3         \* SystemConfig::default
MaxEnergy == 25                  \* energy_level of a new GameState
MaxQuestEnergy == 25             \* validate_quest: required_energy > 25
MaxDifficulty == 10              \* validate_quest: difficulty_level > 10

(***************************************************************************)
(* HashMap and Vec helpers.                                                *)
(***************************************************************************)
EmptyMap == [k \in {} |-> 0]

MapGetOr(m, k, d) == IF k \in DOMAIN m THEN m[k] ELSE d

MapInsert(m, k, v) == [x \in (DOMAIN m) \cup {k} |-> IF x = k THEN v ELSE m[x]]

Contains(vec, x) == \E i \in 1..Len(vec) : vec[i] = x

Retain(vec, x) == SelectSeq(vec, LAMBDA e : e # x)

Min(a, b) == IF a < b THEN a ELSE b

Max(a, b) == IF a > b THEN a ELSE b

SaturatingSub(a, b) == IF a >= b THEN a - b ELSE 0

RECURSIVE PushAbsent(_, _)
PushAbsent(vec, items) ==
    IF items = <<>> THEN vec
    ELSE PushAbsent(IF Contains(vec, Head(items)) THEN vec
                    ELSE Append(vec, Head(items)),
                    Tail(items))

(***************************************************************************)
(* Results: Result<T> of the core is Ok(value) or Err(EnochianError); the  *)
(* error keeps its enum variant, the message text is dropped.              *)
(***************************************************************************)
Ok(v) == [tag |-> "Ok", err |-> "", value |-> <<v>>]

OkUnit == [tag |-> "Ok", err |-> "", value |-> <<>>]

ErrGeneric == [tag |-> "Err", err |-> "Generic", value |-> <<>>]

ErrAuthenticity == [tag |-> "Err", err |-> "AuthenticityError", value |-> <<>>]

NoCall == [tag |-> "None", err |-> "", value |-> <<>>]

(***************************************************************************)
(* Reward bundles and the quests the callers register.                     *)
(***************************************************************************)
RewardsA ==
    [experience |-> 100,
     reputation_changes |-> [c \in {"overall"} |-> 10],
     tradition_mastery_gains |-> [t \in {"Enochian"} |-> 60],
     governor_relationship_changes |-> [g \in {"ABRIOND"} |-> 70],
     bitcoin_rewards |-> 1000,
     sacred_items |-> <<"ring", "ring">>,
     hypertoken_rewards |-> <<"ht1">>,
     aethyr_access_gained |-> <<1, 2>>]

RewardsB ==
    [experience |-> 50,
     reputation_changes |-> [c \in {"overall"} |-> -5],
     tradition_mastery_gains |-> [t \in {"Enochian", "Thelema"} |-> -50],
     governor_relationship_changes |-> [g \in {"ABRIOND"} |-> -150],
     bitcoin_rewards |-> 0,
     sacred_items |-> <<"ring", "wand">>,
     hypertoken_rewards |-> <<>>,
     aethyr_access_gained |-> <<2>>]

Quest(id, auth, diff, energy, rewards) ==
    [quest_id |-> id, authenticity_score |-> auth, difficulty_level |-> diff,
     required_energy |-> energy, rewards |-> rewards]

\* Well-formed quests: one per id, a second one for q1 (a re-registration
\* with other data), energies that let four quests be started from 25.
BaseQuests ==
    { Quest("q1", 95, 1, 10, RewardsA),
      Quest("q1", 100, 10, 25, RewardsB),
      Quest("q2", 95, 5, 5, RewardsB),
      Quest("q3", 95, 5, 0, RewardsA),
      Quest("q4", 95, 5, 5, RewardsB) }

\* Every base quest, and the first quest with every combination of
\* authenticity, difficulty and energy on either side of the validation limits.
QuestInputs ==
    BaseQuests
    \cup { Quest("q1", a, d, e, RewardsA) :
              a \in {80, 94, 95}, d \in {0, 1, 11}, e \in {10, 26} }

(***************************************************************************)
(* EnochianCore                                                            *)
(***************************************************************************)
NewGameState(player_id) ==
    [player_id |-> player_id,
     block_height |-> 0,
     completed_quests |-> <<>>,
     active_quests |-> <<>>,
     tradition_mastery |-> [t \in {"Enochian"} |-> 10],
     governor_relationships |-> EmptyMap,
     reputation_scores |-> EmptyMap,
     owned_hypertokens |-> <<>>,
     sacred_items |-> <<>>,
     energy_level |-> MaxEnergy,
     aethyr_access |-> <<1>>,
     balance_sats |-> 0,
     staked_amount |-> 0,
     pending_rewards |-> 0,
     authenticity_score |-> 85,
     version |-> 1]

\* validate_quest with the difficulty limit off by one (>= for >)
validate_quest_DifficultyOffByOne(quest) ==
    IF quest.authenticity_score < AuthenticityThreshold THEN ErrAuthenticity
    ELSE IF quest.difficulty_level = 0 \/ quest.difficulty_level >= MaxDifficulty
         THEN ErrGeneric
    ELSE IF quest.required_energy > MaxQuestEnergy THEN ErrGeneric
    ELSE OkUnit

validate_quest(quest) ==
    IF quest.authenticity_score < AuthenticityThreshold THEN ErrAuthenticity
    ELSE IF quest.difficulty_level = 0 \/ quest.difficulty_level > MaxDifficulty
         THEN ErrGeneric
    ELSE IF quest.required_energy > MaxQuestEnergy THEN ErrGeneric
    ELSE OkUnit

\* validate_quest_start without the "already completed" check
validate_quest_start_NoCompletedCheck(player_state, quest) ==
    IF player_state.energy_level < quest.required_energy THEN ErrGeneric
    ELSE IF Len(player_state.active_quests) >= MaxConcurrentQuests THEN ErrGeneric
    ELSE IF Contains(player_state.active_quests, quest.quest_id) THEN ErrGeneric
    ELSE OkUnit

\* validate_quest_start with the energy check off by one (<= for <)
validate_quest_start_EnergyOffByOne(player_state, quest) ==
    IF player_state.energy_level <= quest.required_energy THEN ErrGeneric
    ELSE IF Len(player_state.active_quests) >= MaxConcurrentQuests THEN ErrGeneric
    ELSE IF Contains(player_state.completed_quests, quest.quest_id) THEN ErrGeneric
    ELSE IF Contains(player_state.active_quests, quest.quest_id) THEN ErrGeneric
    ELSE OkUnit

\* validate_quest_start without the concurrent quest limit
validate_quest_start_NoLimit(player_state, quest) ==
    IF player_state.energy_level < quest.required_energy THEN ErrGeneric
    ELSE IF Contains(player_state.completed_quests, quest.quest_id) THEN ErrGeneric
    ELSE IF Contains(player_state.active_quests, quest.quest_id) THEN ErrGeneric
    ELSE OkUnit

\* validate_quest_start without the energy check
validate_quest_start_NoEnergyCheck(player_state, quest) ==
    IF Len(player_state.active_quests) >= MaxConcurrentQuests THEN ErrGeneric
    ELSE IF Contains(player_state.completed_quests, quest.quest_id) THEN ErrGeneric
    ELSE IF Contains(player_state.active_quests, quest.quest_id) THEN ErrGeneric
    ELSE OkUnit

validate_quest_start(player_state, quest) ==
    IF player_state.energy_level < quest.required_energy THEN ErrGeneric
    ELSE IF Len(player_state.active_quests) >= MaxConcurrentQuests THEN ErrGeneric
    ELSE IF Contains(player_state.completed_quests, quest.quest_id) THEN ErrGeneric
    ELSE IF Contains(player_state.active_quests, quest.quest_id) THEN ErrGeneric
    ELSE OkUnit

\* One pass over a reward map: every key of changes is looked up in current
\* (0.0 when absent), added to, passed through clamp and inserted.
FoldMap(current, changes, clamp(_)) ==
    [k \in (DOMAIN current) \cup (DOMAIN changes) |->
        IF k \in DOMAIN changes
        THEN clamp(MapGetOr(current, k, 0) + changes[k])
        ELSE current[k]]

ReputationClamp(x) == x

MasteryClamp(x) == Min(x, 100)

RelationshipClamp(x) == Max(Min(x, 100), -100)

\* apply_quest_rewards pushing sacred items without the contains check
apply_quest_rewards_PushesDuplicates(player_state, rewards) ==
    [player_state EXCEPT
        !.reputation_scores =
            FoldMap(@, rewards.reputation_changes, ReputationClamp),
        !.tradition_mastery =
            FoldMap(@, rewards.tradition_mastery_gains, MasteryClamp),
        !.governor_relationships =
            FoldMap(@, rewards.governor_relationship_changes, RelationshipClamp),
        !.balance_sats = @ + rewards.bitcoin_rewards,
        !.sacred_items = @ \o rewards.sacred_items,
        !.owned_hypertokens = PushAbsent(@, rewards.hypertoken_rewards),
        !.aethyr_access = PushAbsent(@, rewards.aethyr_access_gained)]

\* balance_sats is a u64 and the rewards of the model add up to far less than
\* 2^64, so the addition is the plain one.
apply_quest_rewards(player_state, rewards) ==
    [player_state EXCEPT
        !.reputation_scores =
            FoldMap(@, rewards.reputation_changes, ReputationClamp),
        !.tradition_mastery =
            FoldMap(@, rewards.tradition_mastery_gains, MasteryClamp),
        !.governor_relationships =
            FoldMap(@, rewards.governor_relationship_changes, RelationshipClamp),
        !.balance_sats = @ + rewards.bitcoin_rewards,
        !.sacred_items = PushAbsent(@, rewards.sacred_items),
        !.owned_hypertokens = PushAbsent(@, rewards.hypertoken_rewards),
        !.aethyr_access = PushAbsent(@, rewards.aethyr_access_gained)]

\* create_player_state without the contains_key check
create_player_state_Overwrites(player_id) ==
    /\ game_states' = MapInsert(game_states, player_id, NewGameState(player_id))
    /\ ret' = Ok(NewGameState(player_id))
    /\ UNCHANGED quest_registry

create_player_state(player_id) ==
    IF player_id \in DOMAIN game_states
    THEN /\ ret' = ErrGeneric
         /\ UNCHANGED coreVars
    ELSE /\ game_states' = MapInsert(game_states, player_id, NewGameState(player_id))
         /\ ret' = Ok(NewGameState(player_id))
         /\ UNCHANGED quest_registry

register_quest(quest) ==
    IF validate_quest(quest).tag = "Err"
    THEN /\ ret' = validate_quest(quest)
         /\ UNCHANGED coreVars
    ELSE /\ quest_registry' = MapInsert(quest_registry, quest.quest_id, quest)
         /\ ret' = OkUnit
         /\ UNCHANGED game_states

\* start_quest's update without the energy being spent
StartedState_EnergyKept(player_state, quest_id, quest) ==
    [player_state EXCEPT
        !.active_quests = Append(@, quest_id),
        !.version = @ + 1]

\* start_quest's update with the version raised twice
StartedState_VersionTwice(player_state, quest_id, quest) ==
    [player_state EXCEPT
        !.active_quests = Append(@, quest_id),
        !.energy_level = SaturatingSub(@, quest.required_energy),
        !.version = @ + 2]

StartedState(player_state, quest_id, quest) ==
    [player_state EXCEPT
        !.active_quests = Append(@, quest_id),
        !.energy_level = SaturatingSub(@, quest.required_energy),
        !.version = @ + 1]

start_quest(player_id, quest_id) ==
    IF player_id \notin DOMAIN game_states THEN
        ret' = ErrGeneric /\ UNCHANGED coreVars
    ELSE IF quest_id \notin DOMAIN quest_registry THEN
        ret' = ErrGeneric /\ UNCHANGED coreVars
    ELSE IF validate_quest_start(game_states[player_id],
                                 quest_registry[quest_id]).tag = "Err" THEN
        /\ ret' = validate_quest_start(game_states[player_id],
                                       quest_registry[quest_id])
        /\ UNCHANGED coreVars
    ELSE
        /\ game_states' = [game_states EXCEPT ![player_id] =
               StartedState(@, quest_id, quest_registry[quest_id])]
        /\ ret' = OkUnit
        /\ UNCHANGED quest_registry

\* complete_quest's check looking at the wrong list
QuestIsActive_NotCompleted(player_state, quest_id) ==
    ~Contains(player_state.completed_quests, quest_id)

QuestIsActive(player_state, quest_id) ==
    Contains(player_state.active_quests, quest_id)

\* complete_quest's update without the removal from active_quests
CompletedState_KeepsActive(player_state, quest_id, quest) ==
    [apply_quest_rewards(
        [player_state EXCEPT !.completed_quests = Append(@, quest_id)],
        quest.rewards)
     EXCEPT !.version = @ + 1]

CompletedState(player_state, quest_id, quest) ==
    [apply_quest_rewards(
        [player_state EXCEPT
            !.active_quests = Retain(@, quest_id),
            !.completed_quests = Append(@, quest_id)],
        quest.rewards)
     EXCEPT !.version = @ + 1]

complete_quest(player_id, quest_id) ==
    IF player_id \notin DOMAIN game_states THEN
        ret' = ErrGeneric /\ UNCHANGED coreVars
    ELSE IF quest_id \notin DOMAIN quest_registry THEN
        ret' = ErrGeneric /\ UNCHANGED coreVars
    ELSE IF ~QuestIsActive(game_states[player_id], quest_id) THEN
        ret' = ErrGeneric /\ UNCHANGED coreVars
    ELSE
        /\ game_states' = [game_states EXCEPT ![player_id] =
               CompletedState(@, quest_id, quest_registry[quest_id])]
        /\ ret' = Ok(quest_registry[quest_id].rewards)
        /\ UNCHANGED quest_registry

(***************************************************************************)
(* TracStateManager                                                        *)
(*                                                                         *)
(* Strings that format! builds or takes apart are sequences of one-        *)
(* character strings, so that concatenation is what the code's is.         *)
(***************************************************************************)
WelcomeQuest == <<"w", "e", "l", "c", "o", "m", "e", "_", "q", "u", "e", "s", "t">>

HashPrefix == <<"h", "a", "s", "h", "_">>

SignatureHash == <<"s", "i", "g", "n", "a", "t", "u", "r", "e", "_", "h", "a", "s", "h">>

Sep == <<"_">>

DigitChars == <<"0", "1", "2", "3", "4", "5", "6", "7", "8", "9">>

\* u64 to_string
RECURSIVE Digits(_)
Digits(n) ==
    IF n < 10 THEN <<DigitChars[n + 1]>>
    ELSE Digits(n \div 10) \o <<DigitChars[(n % 10) + 1]>>

authenticity_validators ==
    << <<"e", "n", "o", "c", "h", "i", "a", "n", "_", "v", "a", "l", "i", "d", "a", "t", "o", "r">>,
       <<"h", "e", "r", "m", "e", "t", "i", "c", "_", "v", "a", "l", "i", "d", "a", "t", "o", "r">>,
       <<"t", "r", "a", "d", "i", "t", "i", "o", "n", "_", "v", "a", "l", "i", "d", "a", "t", "o", "r">> >>

BaseTimestamp == 1642680000
BlockInterval == 600
BaseBlockHeight == 800000
ConsensusThreshold == 67         \* ConsensusRules::default, 0.67
MaxPendingTransitions == 100     \* ConsensusRules::default; no method reads it

Json(v) == [tag |-> "Json", err |-> "", value |-> <<v>>]

Text(msg) == [tag |-> "Text", err |-> msg, value |-> <<>>]

None == <<>>

BadJson == <<>>

Some(v) == <<v>>

\* get_current_timestamp not moving with the history
get_current_timestamp_Frozen == BaseTimestamp

get_current_timestamp == BaseTimestamp + Len(state_history) * BlockInterval

get_current_block_height == BaseBlockHeight + Len(state_history)

calculate_state_hash(state) ==
    HashPrefix \o state.player_id \o Sep \o state.current_quest_id \o Sep
        \o Digits(state.timestamp) \o Sep \o Digits(Len(state.completed_quests))

GenesisState(player_id) ==
    [player_id |-> player_id,
     current_quest_id |-> WelcomeQuest,
     completed_quests |-> <<>>,
     active_branches |-> <<>>,
     governor_relationships |-> EmptyMap,
     tradition_mastery |->
         [t \in {"Enochian", "Hermetic_Qabalah"} |->
             IF t = "Enochian" THEN 10 ELSE 5],
     reputation_scores |-> EmptyMap,
     energy_level |-> 25,
     aethyr_access |-> <<>>,
     sacred_items |-> <<>>,
     timestamp |-> get_current_timestamp,
     state_hash |-> <<>>]

WithHash(state) == [state EXCEPT !.state_hash = calculate_state_hash(state)]

Consequence(type, target, change, duration, impact) ==
    [consequence_type |-> type, target |-> target, value_change |-> change,
     duration |-> duration, authenticity_impact |-> impact]

\* calculate_action_consequences granting the mastery of CompleteQuest only
\* while the state's Enochian mastery is at its seed value
calculate_action_consequences_StateDependent(action, state) ==
    CASE action.action_type = "CompleteQuest" ->
            << Consequence("ReputationChange", "overall", 10, "Permanent", 5),
               Consequence("TraditionMastery", "Enochian",
                           IF MapGetOr(state.tradition_mastery, "Enochian", 0) <= 10
                           THEN 5 ELSE 0,
                           "Permanent", 8) >>
      [] action.action_type = "InteractWithGovernor" ->
            << Consequence("GovernorRelationship",
                           MapGetOr(action.parameters, "governor_name", "unknown"),
                           15, "Permanent", 10) >>
      [] action.action_type = "PerformRitual" ->
            << Consequence("EnergyModification", "energy_level", -500,
                           "Temporary", 0),
               Consequence("WisdomUnlock", "ritual_knowledge", 100,
                           "Permanent", 12) >>
      [] OTHER ->
            << Consequence("ReputationChange", "overall", 1, "Temporary", 1) >>

calculate_action_consequences(action, state) ==
    CASE action.action_type = "CompleteQuest" ->
            << Consequence("ReputationChange", "overall", 10, "Permanent", 5),
               Consequence("TraditionMastery", "Enochian", 5, "Permanent", 8) >>
      [] action.action_type = "InteractWithGovernor" ->
            << Consequence("GovernorRelationship",
                           MapGetOr(action.parameters, "governor_name", "unknown"),
                           15, "Permanent", 10) >>
      [] action.action_type = "PerformRitual" ->
            << Consequence("EnergyModification", "energy_level", -500,
                           "Temporary", 0),
               Consequence("WisdomUnlock", "ritual_knowledge", 100,
                           "Permanent", 12) >>
      [] OTHER ->
            << Consequence("ReputationChange", "overall", 1, "Temporary", 1) >>

\* The energy update without its clamps
EnergyAfter_Unclamped(energy, value_change) ==
    (energy * 100 + value_change) \div 100

\* ((energy as f64) + value_change).max(0.0).min(25.0) as u32: the sum is in
\* hundredths, the cast to u32 drops the fraction.
EnergyAfter(energy, value_change) ==
    Min(Max(energy * 100 + value_change, 0), 2500) \div 100

\* target.parse::<u32>(): the targets of the model are decimal numbers below
\* 2^32 written as strings, or not numbers at all.
ParseU32(target) ==
    CASE target = "1" -> Some(1)
      [] target = "2" -> Some(2)
      [] OTHER -> None

ApplyOne(state, c) ==
    CASE c.consequence_type = "ReputationChange" ->
            [state EXCEPT !.reputation_scores =
                MapInsert(@, c.target, MapGetOr(@, c.target, 0) + c.value_change)]
      [] c.consequence_type = "TraditionMastery" ->
            [state EXCEPT !.tradition_mastery =
                MapInsert(@, c.target,
                          Min(MapGetOr(@, c.target, 0) + c.value_change, 100))]
      [] c.consequence_type = "GovernorRelationship" ->
            [state EXCEPT !.governor_relationships =
                MapInsert(@, c.target,
                          Min(MapGetOr(@, c.target, 0) + c.value_change, 100))]
      [] c.consequence_type = "EnergyModification" ->
            [state EXCEPT !.energy_level = EnergyAfter(@, c.value_change)]
      [] c.consequence_type = "ItemGain" ->
            [state EXCEPT !.sacred_items = Append(@, c.target)]
      [] c.consequence_type = "AethyrAccess" ->
            IF ParseU32(c.target) # None
               /\ ~Contains(state.aethyr_access, ParseU32(c.target)[1])
            THEN [state EXCEPT !.aethyr_access = Append(@, ParseU32(c.target)[1])]
            ELSE state
      [] OTHER -> state

RECURSIVE ApplyAll(_, _)
ApplyAll(state, consequences) ==
    IF consequences = <<>> THEN state
    ELSE ApplyAll(ApplyOne(state, Head(consequences)), Tail(consequences))

apply_consequences(state, consequences) ==
    WithHash([ApplyAll(state, consequences) EXCEPT
                 !.timestamp = get_current_timestamp])

\* authenticity_proof.contains("enochian"): the proofs of the model are these.
ContainsEnochian(proof) == proof \in {"enochian seal"}

validate_authenticity(action) ==
    Min(85 + (IF ContainsEnochian(action.authenticity_proof) THEN 10 ELSE 0)
           + (IF "tradition" \in DOMAIN action.parameters THEN 5 ELSE 0),
        100)

create_signature(transition, validator_id) ==
    validator_id \o Sep \o transition.transition_id \o Sep
        \o Digits(transition.timestamp) \o Sep \o SignatureHash

\* ceil(len * threshold), the threshold in hundredths
RequiredSignatures ==
    (Len(authenticity_validators) * ConsensusThreshold + 99) \div 100

\* check_consensus asking for one signature more (> for >=)
check_consensus_Strict(transition) ==
    Len(transition.validator_signatures) > RequiredSignatures

check_consensus(transition) ==
    Len(transition.validator_signatures) >= RequiredSignatures

RemoveAt(vec, i) == SubSeq(vec, 1, i - 1) \o SubSeq(vec, i + 1, Len(vec))

\* The index of the first pending transition with this id, 0 when none.
Position(transition_id) ==
    IF \E i \in 1..Len(pending_transitions) :
           pending_transitions[i].transition_id = transition_id
    THEN CHOOSE i \in 1..Len(pending_transitions) :
           /\ pending_transitions[i].transition_id = transition_id
           /\ \A j \in 1..(i - 1) :
                  pending_transitions[j].transition_id # transition_id
    ELSE 0

\* initialize_player_state starting the history over
initialize_player_state_ClearsHistory(player_id) ==
    /\ current_state' = Some(WithHash(GenesisState(player_id)))
    /\ state_history' = <<WithHash(GenesisState(player_id))>>
    /\ ret' = Json(WithHash(GenesisState(player_id)))
    /\ UNCHANGED pending_transitions

\* initialize_player_state dropping what is pending
initialize_player_state_DropsPending(player_id) ==
    /\ current_state' = Some(WithHash(GenesisState(player_id)))
    /\ state_history' = Append(state_history, WithHash(GenesisState(player_id)))
    /\ ret' = Json(WithHash(GenesisState(player_id)))
    /\ pending_transitions' = <<>>

initialize_player_state(player_id) ==
    /\ current_state' = Some(WithHash(GenesisState(player_id)))
    /\ state_history' = Append(state_history, WithHash(GenesisState(player_id)))
    /\ ret' = Json(WithHash(GenesisState(player_id)))
    /\ UNCHANGED pending_transitions

NewTransition(action) ==
    [transition_id |-> action.quest_id \o Sep \o Digits(get_current_timestamp),
     from_state_hash |-> current_state[1].state_hash,
     to_state_hash |->
         calculate_state_hash(
             apply_consequences(current_state[1],
                 calculate_action_consequences(action, current_state[1]))),
     quest_action |-> action,
     consequences |-> calculate_action_consequences(action, current_state[1]),
     validator_signatures |-> <<>>,
     timestamp |-> get_current_timestamp,
     block_height |-> get_current_block_height]

\* propose_state_transition making the proposed state the canonical one
propose_state_transition_Commits(quest_action, authenticity_proof) ==
    IF quest_action = BadJson THEN
        ret' = Text("Invalid quest action format") /\ UNCHANGED tracVars
    ELSE IF current_state = None THEN
        ret' = Text("No current state initialized") /\ UNCHANGED tracVars
    ELSE
        /\ pending_transitions' =
               Append(pending_transitions, NewTransition(quest_action[1]))
        /\ ret' = Json(NewTransition(quest_action[1]))
        /\ current_state' =
               Some(apply_consequences(current_state[1],
                   calculate_action_consequences(quest_action[1],
                                                 current_state[1])))
        /\ UNCHANGED state_history

\* quest_action is the JSON text of a QuestAction, or text serde rejects
\* (BadJson); the authenticity_proof argument is not read by the code.
propose_state_transition(quest_action, authenticity_proof) ==
    IF quest_action = BadJson THEN
        ret' = Text("Invalid quest action format") /\ UNCHANGED tracVars
    ELSE IF current_state = None THEN
        ret' = Text("No current state initialized") /\ UNCHANGED tracVars
    ELSE
        /\ pending_transitions' =
               Append(pending_transitions, NewTransition(quest_action[1]))
        /\ ret' = Json(NewTransition(quest_action[1]))
        /\ UNCHANGED <<current_state, state_history>>

NewSignature(transition, validator_id) ==
    [validator_id |-> validator_id,
     signature |-> create_signature(transition, validator_id),
     validation_timestamp |-> get_current_timestamp,
     authenticity_score |-> validate_authenticity(transition.quest_action)]

\* The signature push keeping one signature per validator id
Signed_OncePerValidator(index, validator_id) ==
    IF \E k \in 1..Len(pending_transitions[index].validator_signatures) :
           pending_transitions[index].validator_signatures[k].validator_id
               = validator_id
    THEN pending_transitions
    ELSE [pending_transitions EXCEPT ![index].validator_signatures =
             Append(@, NewSignature(pending_transitions[index], validator_id))]

Signed(index, validator_id) ==
    [pending_transitions EXCEPT ![index].validator_signatures =
        Append(@, NewSignature(pending_transitions[index], validator_id))]

\* pending is the pending list with the deciding signature already pushed
finalize_transition(pending, index) ==
    /\ pending_transitions' = RemoveAt(pending, index)
    /\ IF current_state # None
       THEN /\ current_state' =
                 Some(apply_consequences(current_state[1],
                                         pending[index].consequences))
            /\ state_history' =
                 Append(state_history,
                        apply_consequences(current_state[1],
                                           pending[index].consequences))
       ELSE UNCHANGED <<current_state, state_history>>

validate_transition(transition_id, validator_id) ==
    IF Position(transition_id) = 0 THEN
        ret' = Text("Transition not found") /\ UNCHANGED tracVars
    ELSE
        LET index == Position(transition_id)
            signed == Signed(index, validator_id)
        IN /\ ret' = Json(NewSignature(pending_transitions[index], validator_id))
           /\ IF check_consensus(signed[index])
              THEN finalize_transition(signed, index)
              ELSE /\ pending_transitions' = signed
                   /\ UNCHANGED <<current_state, state_history>>

(***************************************************************************)
(* The callers.  Each action below is one call of the public interface     *)
(* with arguments from a small set; the bounds of the model restrict the   *)
(* callers, not the operations.                                            *)
(***************************************************************************)
\* The number of successful start_quest and complete_quest calls so far, over
\* all players (each raises one version by one).
RECURSIVE SumOps(_)
SumOps(ids) ==
    IF ids = {} THEN 0
    ELSE LET p == CHOOSE x \in ids : TRUE
         IN (game_states[p].version - 1) + SumOps(ids \ {p})

OpsLeft == SumOps(DOMAIN game_states) < MaxOps

\* Callers also use ids the core has never seen.
PlayerArgs == PlayerIds \cup {"nobody"}

QuestArgs == QuestIds \cup {"q0"}

CreatePlayer ==
    /\ \E p \in PlayerIds : create_player_state(p)
    /\ UNCHANGED tracVars

RegisterQuest ==
    /\ \E quest \in QuestInputs : register_quest(quest)
    /\ UNCHANGED tracVars

StartQuest ==
    /\ OpsLeft
    /\ \E p \in PlayerArgs, q \in QuestArgs : start_quest(p, q)
    /\ UNCHANGED tracVars

CompleteQuest ==
    /\ OpsLeft
    /\ \E p \in PlayerArgs, q \in QuestArgs : complete_quest(p, q)
    /\ UNCHANGED tracVars

StoryPlayerIds == { <<"a">>, <<"b", "_", "1">> }

Action(type, quest_id, parameters, proof) ==
    [action_type |-> type, quest_id |-> quest_id, choice_id |-> None,
     parameters |-> parameters, authenticity_proof |-> proof]

RitualAction ==
    Action("PerformRitual", <<"r">>, [k \in {"tradition"} |-> "Enochian"], "plain")

ActionInputs ==
    { Action("CompleteQuest", <<"q">>, EmptyMap, "enochian seal"),
      Action("InteractWithGovernor", <<"q">>,
             [k \in {"governor_name"} |-> "ABRIOND"], "plain"),
      RitualAction,
      Action("StartQuest", <<"q">>, EmptyMap, "plain") }

RogueValidator == <<"r", "o", "g", "u", "e">>

\* One of the known validators and one the manager does not know.
ValidatorArgs == {authenticity_validators[1], RogueValidator}

UnknownTransition == <<"x">>

TransitionArgs ==
    { pending_transitions[i].transition_id : i \in 1..Len(pending_transitions) }
    \cup {UnknownTransition}

\* The quest_action texts of the callers: every action of ActionInputs as
\* JSON, and a text that is not the JSON of a QuestAction.
ProposalArgs == {Some(x) : x \in ActionInputs} \cup {BadJson}

\* Every pending transition can still be finalized into a history of at most
\* `bound` entries.
HistoryRoom(bound) == Len(state_history) + Len(pending_transitions) < bound

InitializePlayer ==
    /\ HistoryRoom(MaxHistory)
    /\ \E p \in StoryPlayerIds : initialize_player_state(p)
    /\ UNCHANGED coreVars

ProposeTransition ==
    /\ HistoryRoom(MaxHistory)
    /\ Len(pending_transitions) < MaxPending
    /\ \E a \in ProposalArgs : propose_state_transition(a, "proof")
    /\ UNCHANGED coreVars

ValidateTransition ==
    /\ \E t \in TransitionArgs, v \in ValidatorArgs : validate_transition(t, v)
    /\ UNCHANGED coreVars

Init ==
    /\ game_states = EmptyMap
    /\ quest_registry = EmptyMap
    /\ current_state = None
    /\ pending_transitions = <<>>
    /\ state_history = <<>>
    /\ ret = NoCall

\* EnochianCore on its own
Next ==
    \/ CreatePlayer
    \/ RegisterQuest
    \/ StartQuest
    \/ CompleteQuest

Spec == Init /\ [][Next]_vars

\* TracStateManager on its own
NextTrac ==
    \/ InitializePlayer
    \/ ProposeTransition
    \/ ValidateTransition

SpecTrac == Init /\ [][NextTrac]_vars

\* Both objects side by side, each with the calls that move energy: one
\* player of the core with quests of 10, 25 and 0 energy, and one story player
\* whose only proposals are rituals, signed by one validator.
EnergyQuests ==
    { Quest("q1", 95, 1, 10, RewardsA),
      Quest("q1", 100, 10, 25, RewardsB),
      Quest("q3", 95, 5, 0, RewardsA) }

EnergyCoreCall ==
    /\ \/ create_player_state("p1")
       \/ \E quest \in EnergyQuests : register_quest(quest)
       \/ \E q \in {"q1", "q3"} : start_quest("p1", q)
       \/ \E q \in {"q1", "q3"} : complete_quest("p1", q)
    /\ UNCHANGED tracVars

EnergyStoryCall ==
    /\ \/ /\ HistoryRoom(MaxHistory)
          /\ initialize_player_state(<<"a">>)
       \/ /\ HistoryRoom(MaxRitualHistory)
          /\ pending_transitions = <<>>
          /\ propose_state_transition(Some(RitualAction), "proof")
       \/ \E t \in TransitionArgs :
              validate_transition(t, authenticity_validators[1])
    /\ UNCHANGED coreVars

NextEnergy ==
    \/ EnergyCoreCall
    \/ EnergyStoryCall

SpecEnergy == Init /\ [][NextEnergy]_vars

\* EnochianCore under a caller that registers every quest id at most once
RegisterOnce ==
    /\ \E quest \in QuestInputs :
           /\ quest.quest_id \notin DOMAIN quest_registry
           /\ register_quest(quest)
    /\ UNCHANGED tracVars

NextOnce ==
    \/ CreatePlayer
    \/ RegisterOnce
    \/ StartQuest
    \/ CompleteQuest

SpecOnce == Init /\ [][NextOnce]_vars

\* TracStateManager initialized once, then only proposals and validations
ChainCall ==
    \/ /\ current_state = None
       /\ \E p \in StoryPlayerIds : initialize_player_state(p)
       /\ UNCHANGED coreVars
    \/ ProposeTransition
    \/ ValidateTransition

SpecChain == Init /\ [][ChainCall]_vars

\* TracStateManager under a caller that keeps proposing the same ritual and
\* never has it signed, up to one proposal made with max_pending_transitions
\* transitions pending.
PendingCall ==
    /\ \/ /\ state_history = <<>>
          /\ initialize_player_state(<<"a">>)
       \/ /\ Len(pending_transitions) <= MaxPendingTransitions
          /\ \E a \in {Some(RitualAction), BadJson} :
                 propose_state_transition(a, "proof")
       \/ validate_transition(UnknownTransition, authenticity_validators[1])
    /\ UNCHANGED coreVars

SpecPending == Init /\ [][PendingCall]_vars

\* Item and tier grants: two items, the tiers 1 and 2, and a tier that is
\* not a number.
GrantInputs ==
    { Consequence("ItemGain", "ring", 0, "Permanent", 0),
      Consequence("ItemGain", "wand", 0, "Permanent", 0),
      Consequence("ItemGain", "seal", 0, "Permanent", 0),
      Consequence("AethyrAccess", "1", 0, "Permanent", 0),
      Consequence("AethyrAccess", "2", 0, "Permanent", 0),
      Consequence("AethyrAccess", "x", 0, "Permanent", 0) }

\* apply_consequences called with the one-element list <<c>> on the canonical
\* state, which takes the result (what finalize_transition does with the
\* consequences of a transition); ret is the StoryState returned.
ApplyGrant(c) ==
    /\ current_state' = Some(apply_consequences(current_state[1], <<c>>))
    /\ ret' = Ok(apply_consequences(current_state[1], <<c>>))
    /\ UNCHANGED <<pending_transitions, state_history>>

GrantCall ==
    /\ \/ /\ current_state = None
          /\ \E p \in StoryPlayerIds : initialize_player_state(p)
       \/ /\ current_state # None
          /\ \E c \in GrantInputs :
                 /\ c.consequence_type = "ItemGain" =>
                        Len(current_state[1].sacred_items) < MaxItems
                 /\ ApplyGrant(c)
    /\ UNCHANGED coreVars

SpecGrants == Init /\ [][GrantCall]_vars

\* Player and quest ids with and without the separator of the hash format.
HashIds == { <<"a">>, <<"a", "_", "b">>, <<"c">>, <<"b", "_", "c">> }

\* StoryStates that differ in the four hashed fields and in one field that
\* is not hashed (energy_level).
HashInputs ==
    { [GenesisState(p) EXCEPT !.current_quest_id = q, !.timestamp = t,
                              !.completed_quests = done, !.energy_level = e] :
        p \in HashIds, q \in HashIds,
        t \in {BaseTimestamp, BaseTimestamp + BlockInterval},
        done \in {<<>>, <<"q1">>}, e \in {25, 20} }

\* calculate_state_hash called on a state handed in by the caller: the state
\* becomes current_state as it is, ret is the hash returned for it.
HashCall ==
    /\ \E state \in HashInputs :
           /\ current_state' = Some(state)
           /\ ret' = Ok(calculate_state_hash(state))
    /\ UNCHANGED <<pending_transitions, state_history, game_states,
                   quest_registry>>

SpecHash == Init /\ [][HashCall]_vars

\* One action of every ActionType, and InteractWithGovernor with and without
\* its governor_name parameter.
PolicyActions ==
    ActionInputs
    \cup { Action("InteractWithGovernor", <<"q">>, EmptyMap, "plain"),
           Action("MakeChoice", <<"q">>, EmptyMap, "plain"),
           Action("UseSacredItem", <<"q">>, EmptyMap, "plain") }

\* TracStateManager under a caller that proposes every kind of action, one
\* transition at a time, and has it signed by one validator.
PolicyCall ==
    /\ \/ /\ HistoryRoom(MaxHistory)
          /\ initialize_player_state(<<"a">>)
       \/ /\ HistoryRoom(MaxHistory)
          /\ pending_transitions = <<>>
          /\ \E a \in PolicyActions : propose_state_transition(Some(a), "proof")
       \/ \E t \in TransitionArgs :
              validate_transition(t, authenticity_validators[1])
    /\ UNCHANGED coreVars

SpecPolicy == Init /\ [][PolicyCall]_vars

\* Consequences of either sign for every numeric field, and the two types
\* that apply_consequences has no arm for.
FoldInputs ==
    { Consequence("ReputationChange", "overall", 10, "Permanent", 0),
      Consequence("ReputationChange", "overall", -20, "Permanent", 0),
      Consequence("TraditionMastery", "Enochian", 95, "Permanent", 0),
      Consequence("TraditionMastery", "Enochian", -60, "Permanent", 0),
      Consequence("GovernorRelationship", "ABRIOND", 150, "Permanent", 0),
      Consequence("GovernorRelationship", "ABRIOND", -150, "Permanent", 0),
      Consequence("EnergyModification", "energy_level", -3000, "Temporary", 0),
      Consequence("EnergyModification", "energy_level", 1000, "Temporary", 0),
      Consequence("WisdomUnlock", "ritual_knowledge", 100, "Permanent", 0),
      Consequence("ItemLoss", "ring", 0, "Permanent", 0) }

\* Every one-element list, and two lists whose order matters under clamping.
FoldLists ==
    { <<c>> : c \in FoldInputs }
    \cup { << Consequence("TraditionMastery", "Enochian", 95, "Permanent", 0),
              Consequence("TraditionMastery", "Enochian", -60, "Permanent", 0) >>,
           << Consequence("TraditionMastery", "Enochian", -60, "Permanent", 0),
              Consequence("TraditionMastery", "Enochian", 95, "Permanent", 0) >> }

\* apply_consequences called with a given list on the canonical state, the
\* result becoming the canonical state and the next history entry, as in
\* finalize_transition; ret is the StoryState returned.
ApplyFold(consequences) ==
    /\ current_state' = Some(apply_consequences(current_state[1], consequences))
    /\ state_history' =
           Append(state_history,
                  apply_consequences(current_state[1], consequences))
    /\ ret' = Ok(apply_consequences(current_state[1], consequences))
    /\ UNCHANGED pending_transitions

FoldCall ==
    /\ \/ /\ current_state = None
          /\ initialize_player_state(<<"a">>)
       \/ /\ current_state # None
          /\ HistoryRoom(MaxHistory)
          /\ \E consequences \in FoldLists : ApplyFold(consequences)
    /\ UNCHANGED coreVars

SpecFold == Init /\ [][FoldCall]_vars

(***************************************************************************)
(* Properties                                                              *)
(***************************************************************************)
SetOf(vec) == { vec[i] : i \in 1..Len(vec) }

NoDuplicates(vec) == \A i, j \in 1..Len(vec) : vec[i] = vec[j] => i = j

IsPrefix(a, b) == Len(a) <= Len(b) /\ SubSeq(b, 1, Len(a)) = a

InActive(states, p, q) == p \in DOMAIN states /\ q \in SetOf(states[p].active_quests)

InCompleted(states, p, q) ==
    p \in DOMAIN states /\ q \in SetOf(states[p].completed_quests)

OthersUnchanged(p) ==
    /\ DOMAIN game_states' = DOMAIN game_states
    /\ \A o \in DOMAIN game_states : o # p => game_states'[o] = game_states[o]

\* C1: a player's active_quests and completed_quests never hold the same
\* quest id at the same time.
C1_ActiveCompletedDisjoint ==
    \A p \in DOMAIN game_states :
        SetOf(game_states[p].active_quests)
            \cap SetOf(game_states[p].completed_quests) = {}

\* A player with one quest completed and another one active.
C1_Witness ==
    \E p \in DOMAIN game_states :
        /\ game_states[p].completed_quests # <<>>
        /\ game_states[p].active_quests # <<>>

\* C2: per player and quest the status only moves Unstarted -> Active (by a
\* successful start_quest) and Active -> Completed (by a successful
\* complete_quest); a completed quest stays completed, never is active again,
\* and completed_quests holds no duplicate.
C2_StatusMonotonic ==
    [][\A p \in PlayerIds, q \in QuestIds :
          /\ InCompleted(game_states, p, q) =>
                InCompleted(game_states', p, q) /\ ~InActive(game_states', p, q)
          /\ InActive(game_states, p, q) =>
                InActive(game_states', p, q) \/ InCompleted(game_states', p, q)
          /\ (~InActive(game_states, p, q) /\ InActive(game_states', p, q)) =>
                /\ ~InCompleted(game_states, p, q)
                /\ start_quest(p, q) /\ ret'.tag = "Ok"
          /\ (~InCompleted(game_states, p, q) /\ InCompleted(game_states', p, q)) =>
                /\ InActive(game_states, p, q)
                /\ complete_quest(p, q) /\ ret'.tag = "Ok"
          /\ p \in DOMAIN game_states' =>
                NoDuplicates(game_states'[p].completed_quests)
      ]_vars

\* A player with a completed quest and an active one whose last call (such as
\* a second start of the completed quest) was refused.
C2_Witness ==
    /\ ret = ErrGeneric
    /\ \E p \in DOMAIN game_states :
        /\ Len(game_states[p].completed_quests) >= 1
        /\ Len(game_states[p].active_quests) >= 1

StartAllowed(p, q) ==
    /\ p \in DOMAIN game_states
    /\ q \in DOMAIN quest_registry
    /\ game_states[p].energy_level >= quest_registry[q].required_energy
    /\ Len(game_states[p].active_quests) < MaxConcurrentQuests
    /\ q \notin SetOf(game_states[p].completed_quests)
    /\ q \notin SetOf(game_states[p].active_quests)

\* C3: start_quest succeeds exactly when the player exists, the quest is
\* registered, the energy suffices, fewer than max_concurrent_quests quests
\* are active and the quest is neither completed nor active; otherwise it
\* returns an error and changes no player state and not the registry.
C3_StartQuestGuard ==
    [][\A p \in PlayerArgs, q \in QuestArgs :
          start_quest(p, q) =>
              /\ (ret'.tag = "Ok") <=> StartAllowed(p, q)
              /\ ~StartAllowed(p, q) =>
                    /\ ret'.tag = "Err"
                    /\ game_states' = game_states
                    /\ quest_registry' = quest_registry
      ]_vars

\* A refused start_quest of a player who has a quest running.
C3_Witness ==
    /\ ret = ErrGeneric
    /\ \E p \in DOMAIN game_states : game_states[p].active_quests # <<>>

\* C4: a successful start_quest appends the quest id to active_quests, lowers
\* energy_level by exactly required_energy (not below 0), raises version by 1
\* and changes nothing else of this player, no other player and not the
\* registry; a new player starting a 10-energy quest has energy 15, active
\* [q1], version 2.
C4_StartQuestEffect ==
    [][\A p \in PlayerArgs, q \in QuestArgs :
          (start_quest(p, q) /\ ret'.tag = "Ok") =>
              /\ game_states'[p] =
                    [game_states[p] EXCEPT
                        !.active_quests = Append(@, q),
                        !.energy_level = @ - quest_registry[q].required_energy,
                        !.version = @ + 1]
              /\ game_states'[p].energy_level >= 0
              /\ OthersUnchanged(p)
              /\ quest_registry' = quest_registry
              /\ (game_states[p] = NewGameState(p)
                    /\ quest_registry[q].required_energy = 10) =>
                    /\ game_states'[p].energy_level = 15
                    /\ game_states'[p].active_quests = <<q>>
                    /\ game_states'[p].version = 2
      ]_vars

\* The new player of the example right after starting q1.
C4_Witness ==
    /\ ret = OkUnit
    /\ \E p \in DOMAIN game_states :
        /\ game_states[p].energy_level = 15
        /\ game_states[p].active_quests = <<"q1">>
        /\ game_states[p].version = 2

CompleteAllowed(p, q) ==
    /\ p \in DOMAIN game_states
    /\ q \in DOMAIN quest_registry
    /\ q \in SetOf(game_states[p].active_quests)

\* C5: complete_quest succeeds exactly when the player exists, the quest is
\* registered and the quest id is in the player's active_quests; otherwise
\* it returns an error and leaves the player's state unchanged.
C5_CompleteQuestGuard ==
    [][\A p \in PlayerArgs, q \in QuestArgs :
          complete_quest(p, q) =>
              /\ (ret'.tag = "Ok") <=> CompleteAllowed(p, q)
              /\ ~CompleteAllowed(p, q) =>
                    /\ ret'.tag = "Err"
                    /\ game_states' = game_states
                    /\ quest_registry' = quest_registry
      ]_vars

\* A refused call on a player who has completed a quest (completing it a
\* second time is such a call).
C5_Witness ==
    /\ ret = ErrGeneric
    /\ \E p \in DOMAIN game_states : game_states[p].completed_quests # <<>>

\* after is before with the entries of added that it lacked, pushed in order
GrantedOnce(before, after, added) ==
    /\ IsPrefix(before, after)
    /\ SetOf(after) = SetOf(before) \cup SetOf(added)
    /\ NoDuplicates(SubSeq(after, Len(before) + 1, Len(after)))
    /\ SetOf(SubSeq(after, Len(before) + 1, Len(after))) \cap SetOf(before) = {}

\* after is before with every delta added to its key (0 when absent) and
\* then limited
DeltasAdded(before, after, deltas, limited(_)) ==
    /\ DOMAIN after = (DOMAIN before) \cup (DOMAIN deltas)
    /\ \A k \in DOMAIN after :
        IF k \in DOMAIN deltas
        THEN after[k] =
                limited((IF k \in DOMAIN before THEN before[k] ELSE 0) + deltas[k])
        ELSE after[k] = before[k]

AnyValue(x) == x

AtMostOne(x) == IF x > 100 THEN 100 ELSE x

WithinOne(x) == IF x > 100 THEN 100 ELSE IF x < -100 THEN -100 ELSE x

\* The reward bundle as the code applies it: reputation unbounded, mastery
\* limited above by 1.0, relationships limited to -1.0..1.0, the balance
\* raised, items, tokens and tiers granted once.
RewardsApplied(before, after, rewards) ==
    /\ DeltasAdded(before.reputation_scores, after.reputation_scores,
                   rewards.reputation_changes, AnyValue)
    /\ DeltasAdded(before.tradition_mastery, after.tradition_mastery,
                   rewards.tradition_mastery_gains, AtMostOne)
    /\ DeltasAdded(before.governor_relationships, after.governor_relationships,
                   rewards.governor_relationship_changes, WithinOne)
    /\ after.balance_sats = before.balance_sats + rewards.bitcoin_rewards
    /\ GrantedOnce(before.sacred_items, after.sacred_items, rewards.sacred_items)
    /\ GrantedOnce(before.owned_hypertokens, after.owned_hypertokens,
                   rewards.hypertoken_rewards)
    /\ GrantedOnce(before.aethyr_access, after.aethyr_access,
                   rewards.aethyr_access_gained)

\* C6: a successful complete_quest removes the quest id from active_quests,
\* appends it to completed_quests, applies the registered quest's reward
\* bundle, raises version by 1, leaves energy_level unchanged and returns
\* the rewards stored for the quest in the registry.
C6_CompleteQuestEffect ==
    [][\A p \in PlayerArgs, q \in QuestArgs :
          (complete_quest(p, q) /\ ret'.tag = "Ok") =>
              /\ q \notin SetOf(game_states'[p].active_quests)
              /\ game_states'[p].active_quests =
                    SelectSeq(game_states[p].active_quests, LAMBDA x : x # q)
              /\ game_states'[p].completed_quests =
                    Append(game_states[p].completed_quests, q)
              /\ RewardsApplied(game_states[p], game_states'[p],
                                quest_registry[q].rewards)
              /\ game_states'[p].version = game_states[p].version + 1
              /\ game_states'[p].energy_level = game_states[p].energy_level
              /\ game_states'[p].player_id = game_states[p].player_id
              /\ ret'.value = <<quest_registry[q].rewards>>
              /\ OthersUnchanged(p)
              /\ quest_registry' = quest_registry
      ]_vars

\* The player of the example after start and completion of q1: active [],
\* completed [q1], version 3, the quest's rewards returned.
C6_Witness ==
    /\ ret.tag = "Ok"
    /\ "q1" \in DOMAIN quest_registry
    /\ ret.value = <<quest_registry["q1"].rewards>>
    /\ \E p \in DOMAIN game_states :
        /\ game_states[p].active_quests = <<>>
        /\ game_states[p].completed_quests = <<"q1">>
        /\ game_states[p].version = 3

\* C7: a player's active_quests never holds more than max_concurrent_quests
\* (3) quests: a start_quest made while that many are active is refused.
C7_ConcurrencyLimit ==
    /\ [](\A p \in DOMAIN game_states :
             Len(game_states[p].active_quests) <= MaxConcurrentQuests)
    /\ [][\A p \in PlayerIds, q \in QuestArgs :
             (/\ start_quest(p, q)
              /\ p \in DOMAIN game_states
              /\ Len(game_states[p].active_quests) >= MaxConcurrentQuests) =>
                 ret'.tag = "Err" /\ game_states' = game_states
         ]_vars

\* Three quests are active, the last call was refused, and a fourth quest
\* is registered that the player has the energy for and has not started.
C7_Witness ==
    /\ ret = ErrGeneric
    /\ \E p \in DOMAIN game_states, q \in DOMAIN quest_registry :
        /\ Len(game_states[p].active_quests) = MaxConcurrentQuests
        /\ q \notin SetOf(game_states[p].active_quests)
        /\ q \notin SetOf(game_states[p].completed_quests)
        /\ game_states[p].energy_level >= quest_registry[q].required_energy

QuestRejected(quest) ==
    \/ quest.authenticity_score < AuthenticityThreshold
    \/ quest.difficulty_level \notin 1..10
    \/ quest.required_energy > 25

\* C8: register_quest is rejected iff the authenticity score is below the
\* threshold, or the difficulty is outside 1..10, or required_energy > 25;
\* a rejected call leaves the registry unchanged, an accepted one stores the
\* quest under its quest_id; a score of 0.80 against the threshold 0.95 is
\* rejected with the authenticity error.
C8_RegisterQuestGuard ==
    [][\A quest \in QuestInputs :
          register_quest(quest) =>
              /\ (ret'.tag = "Err") <=> QuestRejected(quest)
              /\ QuestRejected(quest) => quest_registry' = quest_registry
              /\ ~QuestRejected(quest) =>
                    /\ ret'.tag = "Ok"
                    /\ DOMAIN quest_registry' =
                          (DOMAIN quest_registry) \cup {quest.quest_id}
                    /\ quest_registry'[quest.quest_id] = quest
                    /\ \A o \in DOMAIN quest_registry :
                          o # quest.quest_id =>
                              quest_registry'[o] = quest_registry[o]
              /\ quest.authenticity_score = 80 => ret' = ErrAuthenticity
              /\ game_states' = game_states
      ]_vars

\* A registry that holds quests, after a registration rejected for its
\* authenticity score.
C8_Witness ==
    /\ ret = ErrAuthenticity
    /\ DOMAIN quest_registry # {}

\* C9: the registry is write-once per quest id: the QuestData stored under a
\* registered id is the same in every later state.
C9_RegistryWriteOnce ==
    [][\A q \in DOMAIN quest_registry :
          q \in DOMAIN quest_registry' /\ quest_registry'[q] = quest_registry[q]
      ]_vars

StoryEnergies ==
    (IF current_state = None THEN {} ELSE {current_state[1].energy_level})
    \cup { state_history[i].energy_level : i \in 1..Len(state_history) }

\* A step that finalizes a pending transition, all pending ones being rituals
RitualFinalized ==
    /\ Len(pending_transitions') = Len(pending_transitions) - 1
    /\ Len(state_history') = Len(state_history) + 1
    /\ current_state # None
    /\ \A i \in 1..Len(pending_transitions) :
          pending_transitions[i].quest_action.action_type = "PerformRitual"

\* C10: energy stays within 0..25: GameState.energy_level after any sequence
\* of create_player_state / start_quest / complete_quest, and
\* StoryState.energy_level after any sequence of initialize_player_state /
\* propose_state_transition / validate_transition; each finalized
\* PerformRitual lowers the story energy by 5, stopping at 0.
C10_EnergyInRange ==
    /\ [](/\ \A p \in DOMAIN game_states :
                game_states[p].energy_level \in 0..25
          /\ StoryEnergies \subseteq 0..25)
    /\ [][RitualFinalized =>
             current_state'[1].energy_level =
                 (IF current_state[1].energy_level >= 5
                  THEN current_state[1].energy_level - 5 ELSE 0)
         ]_vars

\* Both energies used up: the player of the core started the 25-energy
\* quest, and a sixth ritual was finalized on a story state already at 0.
C10_Witness ==
    /\ "p1" \in DOMAIN game_states
    /\ game_states["p1"].energy_level = 0
    /\ Len(state_history) >= 3
    /\ state_history[Len(state_history)].energy_level = 0
    /\ state_history[Len(state_history) - 1].energy_level = 0
    /\ state_history[Len(state_history) - 2].energy_level = 5

\* A step that is a successful start_quest or complete_quest of player p
MutatedPlayer(p) ==
    \E q \in QuestArgs :
        (start_quest(p, q) \/ complete_quest(p, q)) /\ ret'.tag = "Ok"

\* C11: a player's version is 1 when create_player_state stores the player,
\* rises by exactly 1 on each successful start_quest or complete_quest of
\* that player, and is the same after a failed call or a call for another
\* player.
C11_VersionCounter ==
    [][/\ \A p \in (DOMAIN game_states') \ (DOMAIN game_states) :
             /\ create_player_state(p)
             /\ game_states'[p].version = 1
       /\ \A p \in DOMAIN game_states :
             /\ p \in DOMAIN game_states'
             /\ game_states'[p].version =
                    game_states[p].version + (IF MutatedPlayer(p) THEN 1 ELSE 0)
       /\ ret'.tag = "Err" => game_states' = game_states
      ]_vars

\* One player at version 3 (a start and a completion), the other still at
\* version 1, after a refused call.
C11_Witness ==
    /\ ret = ErrGeneric
    /\ \E p, o \in DOMAIN game_states :
        /\ game_states[p].version = 3
        /\ game_states[p].completed_quests # <<>>
        /\ game_states[o].version = 1

\* C12: every value of a player's tradition_mastery lies in 0.0..1.0, also
\* after completing quests whose tradition_mastery_gains are negative.
C12_MasteryInRange ==
    \A p \in DOMAIN game_states :
        \A t \in DOMAIN game_states[p].tradition_mastery :
            game_states[p].tradition_mastery[t] \in 0..100

\* C13: create_player_state with an id that is already stored returns an
\* error and changes no player's state (the stored quests, energy and
\* version survive) and not the registry.
C13_CreateExistingRejected ==
    [][\A p \in PlayerIds :
          (create_player_state(p) /\ p \in DOMAIN game_states) =>
              /\ ret'.tag = "Err"
              /\ game_states' = game_states
              /\ quest_registry' = quest_registry
      ]_vars

\* Both players are stored, one of them with a quest completed and another
\* one running, and the last call (such as a second create_player_state of
\* that player) was refused.
C13_Witness ==
    /\ ret = ErrGeneric
    /\ DOMAIN game_states = PlayerIds
    /\ \E p \in DOMAIN game_states :
        /\ game_states[p].version >= 4
        /\ game_states[p].completed_quests # <<>>
        /\ game_states[p].active_quests # <<>>
        /\ game_states[p].energy_level < MaxEnergy

SignatureCount(i) == Len(pending_transitions[i].validator_signatures)

\* A step that takes pending transition i out of the pending list, appends
\* one state to the history and makes it the canonical state
Finalizes(i) ==
    /\ pending_transitions' = RemoveAt(pending_transitions, i)
    /\ Len(state_history') = Len(state_history) + 1
    /\ current_state' = Some(state_history'[Len(state_history')])

\* C14: a pending transition is finalized if and only if its signature count
\* reaches ceil(consensus_threshold * validators) = 3, inside the
\* validate_transition call that adds the deciding signature; every pending
\* transition has fewer signatures than that, and a signature below the
\* quorum changes neither the canonical state nor the history.
C14_QuorumFinalizes ==
    /\ [](/\ RequiredSignatures = 3
          /\ \A i \in 1..Len(pending_transitions) :
                SignatureCount(i) < RequiredSignatures)
    /\ [][\A t \in TransitionArgs, v \in ValidatorArgs :
             (validate_transition(t, v) /\ Position(t) # 0) =>
                 IF SignatureCount(Position(t)) + 1 >= 3
                 THEN Finalizes(Position(t))
                 ELSE /\ current_state' = current_state
                      /\ state_history' = state_history
                      /\ Len(pending_transitions') = Len(pending_transitions)
                      /\ Len(pending_transitions'[Position(t)].validator_signatures)
                            = SignatureCount(Position(t)) + 1
         ]_vars
    /\ [][Len(pending_transitions') < Len(pending_transitions) =>
             \E t \in TransitionArgs, v \in ValidatorArgs :
                 /\ validate_transition(t, v)
                 /\ Position(t) # 0
                 /\ SignatureCount(Position(t)) + 1 = 3
         ]_vars

\* One transition was finalized (its ritual lowered the energy of the last
\* history entry) while another one is pending with two signatures, one
\* short of the quorum; the last call returned a signature.
C14_Witness ==
    /\ ret.tag = "Json"
    /\ "signature" \in DOMAIN ret.value[1]
    /\ Len(state_history) >= 2
    /\ state_history[Len(state_history)].energy_level = 20
    /\ \E i \in 1..Len(pending_transitions) : SignatureCount(i) = 2

\* C15: finalization is one-shot: a finalization removes exactly the
\* finalized transition from the pending list and appends exactly one state,
\* the canonical state with the transition's consequences applied once; no
\* pending transition carries the finalized id afterwards, so that a further
\* validate_transition with that id reports "not found", and a call that
\* reports "not found" changes nothing.
C15_FinalizeOneShot ==
    [][/\ \A t \in TransitionArgs, v \in ValidatorArgs :
             (/\ validate_transition(t, v)
              /\ Position(t) # 0
              /\ Len(pending_transitions') < Len(pending_transitions)) =>
                 /\ pending_transitions' =
                       RemoveAt(pending_transitions, Position(t))
                 /\ state_history' =
                       Append(state_history,
                              apply_consequences(current_state[1],
                                  pending_transitions[Position(t)].consequences))
                 /\ current_state' = Some(state_history'[Len(state_history')])
                 /\ \A i \in 1..Len(pending_transitions') :
                       pending_transitions'[i].transition_id # t
       /\ \A t \in TransitionArgs, v \in ValidatorArgs :
             (validate_transition(t, v) /\ Position(t) = 0) =>
                 /\ ret' = Text("Transition not found")
                 /\ UNCHANGED tracVars
       /\ Len(state_history') <= Len(state_history) + 1
      ]_vars

\* C17: the history is append-only: every step keeps the entries it had as
\* a prefix; it grows by exactly one entry, the new canonical state, on
\* initialize_player_state and on each finalization, and by none on
\* propose_state_transition, on a validate_transition below the quorum and
\* on a failed call.
C17_HistoryAppendOnly ==
    [][/\ IsPrefix(state_history, state_history')
       /\ Len(state_history') <= Len(state_history) + 1
       /\ \A p \in StoryPlayerIds :
             initialize_player_state(p) =>
                 state_history' = Append(state_history, current_state'[1])
       /\ \A a \in ProposalArgs :
             propose_state_transition(a, "proof") =>
                 state_history' = state_history
       /\ \A t \in TransitionArgs, v \in ValidatorArgs :
             validate_transition(t, v) =>
                 IF Position(t) # 0
                    /\ SignatureCount(Position(t)) + 1 >= RequiredSignatures
                 THEN state_history' = Append(state_history, current_state'[1])
                 ELSE state_history' = state_history
       /\ ret'.tag = "Text" => state_history' = state_history
      ]_vars

\* A history of three entries, the last one produced by a finalization (the
\* genesis state has no reputation), after a failed call.
C17_Witness ==
    /\ ret.tag = "Text"
    /\ Len(state_history) >= 3
    /\ state_history[1].reputation_scores = EmptyMap
    /\ state_history[3].reputation_scores # EmptyMap

\* C18: propose_state_transition before any initialize_player_state fails
\* (a quest action that parses gets "No current state initialized") and leaves
\* pending list, history and the absent canonical state unchanged; a
\* successful proposal appends exactly one transition with no signatures and
\* changes neither the canonical state nor the history.
C18_ProposeNeedsState ==
    [][\A a \in ProposalArgs :
          propose_state_transition(a, "proof") =>
              /\ current_state = None =>
                    /\ ret'.tag = "Text"
                    /\ a # BadJson => ret' = Text("No current state initialized")
                    /\ UNCHANGED tracVars
              /\ ret'.tag = "Json" =>
                    /\ current_state # None
                    /\ pending_transitions' =
                          Append(pending_transitions, ret'.value[1])
                    /\ ret'.value[1].validator_signatures = <<>>
                    /\ current_state' = current_state
                    /\ state_history' = state_history
      ]_vars

\* The refused proposal on a manager that was never initialized.
C18_Witness ==
    /\ ret = Text("No current state initialized")
    /\ current_state = None
    /\ pending_transitions = <<>>
    /\ state_history = <<>>

\* C16: the pending list never holds more than max_pending_transitions (100)
\* transitions: a propose_state_transition made with that many pending
\* fails and adds nothing.
C16_PendingBounded ==
    /\ [](Len(pending_transitions) <= MaxPendingTransitions)
    /\ [][\A a \in ProposalArgs :
             (/\ propose_state_transition(a, "proof")
              /\ Len(pending_transitions) >= MaxPendingTransitions) =>
                 /\ ret'.tag = "Text"
                 /\ pending_transitions' = pending_transitions
         ]_vars

\* C19: an ItemGain (same target) or AethyrAccess (same tier) consequence
\* applied a second time leaves sacred_items and aethyr_access as the first
\* application left them: no duplicate entry is added.
C19_GrantIdempotent ==
    [][\A c \in GrantInputs :
          (current_state # None /\ ApplyGrant(c)) =>
              LET once == current_state'[1]
                  twice == apply_consequences(once, <<c>>)
              IN /\ twice.sacred_items = once.sacred_items
                 /\ twice.aethyr_access = once.aethyr_access
      ]_vars

HashedFields(state) ==
    <<state.player_id, state.current_quest_id, state.timestamp,
      Len(state.completed_quests)>>

\* C20: the state hash depends on (player id, current quest id, timestamp,
\* number of completed quests) only and is injective on that tuple: two
\* states get the same hash exactly when they agree on the four fields, for
\* ids with and without the '_' separator.
C20_HashInjective ==
    [][(current_state # None /\ current_state' # None) =>
          ((ret' = ret) <=>
              (HashedFields(current_state'[1]) = HashedFields(current_state[1])))
      ]_vars

\* The policy table: the (type, target, change) rows for an action
PolicyTable(action) ==
    IF action.action_type = "CompleteQuest"
    THEN << <<"ReputationChange", "overall", 10>>,
            <<"TraditionMastery", "Enochian", 5>> >>
    ELSE IF action.action_type = "InteractWithGovernor"
    THEN << <<"GovernorRelationship",
              IF "governor_name" \in DOMAIN action.parameters
              THEN action.parameters["governor_name"] ELSE "unknown",
              15>> >>
    ELSE IF action.action_type = "PerformRitual"
    THEN << <<"EnergyModification", "energy_level", -500>>,
            <<"WisdomUnlock", "ritual_knowledge", 100>> >>
    ELSE << <<"ReputationChange", "overall", 1>> >>

Rows(consequences) ==
    [i \in 1..Len(consequences) |->
        <<consequences[i].consequence_type, consequences[i].target,
          consequences[i].value_change>>]

\* C21: the consequence list of a proposed transition is the row of the
\* policy table for the action's type and parameters (CompleteQuest: +0.10
\* reputation overall, +0.05 mastery Enochian; InteractWithGovernor: +0.15
\* relationship with governor_name or "unknown"; PerformRitual: -5 energy,
\* +1 wisdom unlock; the other types: +0.01 reputation overall), whatever the
\* canonical state is.
C21_ConsequencePolicy ==
    [][\A a \in PolicyActions :
          (propose_state_transition(Some(a), "proof") /\ ret'.tag = "Json") =>
              /\ Rows(ret'.value[1].consequences) = PolicyTable(a)
              /\ Rows(pending_transitions'[Len(pending_transitions')].consequences)
                    = PolicyTable(a)
      ]_vars

\* An InteractWithGovernor without governor_name is pending with the target
\* "unknown", proposed on a canonical state that a ritual has taken down to
\* energy 20.
C21_Witness ==
    /\ current_state # None
    /\ current_state[1].energy_level = 20
    /\ \E i \in 1..Len(pending_transitions) :
          /\ pending_transitions[i].quest_action.action_type
                = "InteractWithGovernor"
          /\ Rows(pending_transitions[i].consequences)
                = << <<"GovernorRelationship", "unknown", 15>> >>

Clamp(x, low, high) == IF x < low THEN low ELSE IF x > high THEN high ELSE x

ValueOr0(m, k) == IF k \in DOMAIN m THEN m[k] ELSE 0

SetKey(m, k, v) == [x \in (DOMAIN m) \cup {k} |-> IF x = k THEN v ELSE m[x]]

\* One step of the reference fold
ReferenceOne(state, c) ==
    IF c.consequence_type = "ReputationChange"
    THEN [state EXCEPT !.reputation_scores =
             SetKey(@, c.target, ValueOr0(@, c.target) + c.value_change)]
    ELSE IF c.consequence_type = "TraditionMastery"
    THEN [state EXCEPT !.tradition_mastery =
             SetKey(@, c.target,
                    Clamp(ValueOr0(@, c.target) + c.value_change, 0, 100))]
    ELSE IF c.consequence_type = "GovernorRelationship"
    THEN [state EXCEPT !.governor_relationships =
             SetKey(@, c.target,
                    Clamp(ValueOr0(@, c.target) + c.value_change, -100, 100))]
    ELSE IF c.consequence_type = "EnergyModification"
    THEN [state EXCEPT !.energy_level =
             Clamp(@ * 100 + c.value_change, 0, 2500) \div 100]
    ELSE state

RECURSIVE ReferenceFold(_, _)
ReferenceFold(state, consequences) ==
    IF consequences = <<>> THEN state
    ELSE ReferenceFold(ReferenceOne(state, Head(consequences)),
                       Tail(consequences))

\* C22: apply_consequences gives the reference fold in list order:
\* reputation += delta, mastery clamped to 0..1, relationship clamped to
\* -1..1, energy clamped to 0..25, nothing changed by WisdomUnlock and
\* ItemLoss (the timestamp and the hash are set by the call).
C22_ReferenceFold ==
    [][\A consequences \in FoldLists :
          (current_state # None /\ ApplyFold(consequences)) =>
              current_state'[1] =
                  [ReferenceFold(current_state[1], consequences) EXCEPT
                      !.timestamp = current_state'[1].timestamp,
                      !.state_hash = current_state'[1].state_hash]
      ]_vars

\* A step in which validate_transition(t, v) finalizes the transition it
\* addresses
FinalizedBy(t, v) ==
    /\ validate_transition(t, v)
    /\ Position(t) # 0
    /\ Len(pending_transitions') < Len(pending_transitions)

\* C23: when a transition is finalized, the state_hash of the new canonical
\* state is the to_state_hash the transition recorded when it was proposed,
\* also with several transitions pending at once.
C23_FinalHashAsProposed ==
    [][\A t \in TransitionArgs, v \in ValidatorArgs :
          FinalizedBy(t, v) =>
              current_state'[1].state_hash =
                  pending_transitions[Position(t)].to_state_hash
      ]_vars

\* C24: a proposed transition's from_state_hash is the hash of the canonical
\* state at proposal time, and a finalized transition's from_state_hash is
\* the state_hash of the history entry right before the state it produced.
C24_HashChain ==
    [][/\ \A a \in ProposalArgs :
             (propose_state_transition(a, "proof") /\ ret'.tag = "Json") =>
                 ret'.value[1].from_state_hash = current_state[1].state_hash
       /\ \A t \in TransitionArgs, v \in ValidatorArgs :
             FinalizedBy(t, v) =>
                 pending_transitions[Position(t)].from_state_hash =
                     state_history'[Len(state_history') - 1].state_hash
      ]_vars

\* C27: the pending transitions have pairwise distinct transition ids in
\* every reachable state, also when one quest id is proposed twice before
\* anything is finalized.
C27_DistinctTransitionIds ==
    \A i, j \in 1..Len(pending_transitions) :
        pending_transitions[i].transition_id
            = pending_transitions[j].transition_id => i = j

\* The signatures of a list that carry the id of a known validator
KnownSignatures(signatures) ==
    { k \in 1..Len(signatures) :
        signatures[k].validator_id \in SetOf(authenticity_validators) }

\* C28: a transition is finalized only on signatures of validators of
\* authenticity_validators: when it is finalized, at least the quorum of
\* its signatures, the deciding one included, carry a known validator id.
C28_KnownValidatorsOnly ==
    [][\A t \in TransitionArgs, v \in ValidatorArgs :
          FinalizedBy(t, v) =>
              Cardinality(KnownSignatures(
                  pending_transitions[Position(t)].validator_signatures))
                + (IF v \in SetOf(authenticity_validators) THEN 1 ELSE 0)
                  >= RequiredSignatures
      ]_vars

\* C25: validate_transition appends a signature on every call for a pending
\* transition whether or not the validator id has signed before; repeated
\* signatures of one id are kept and counted, so the third call with the
\* same validator id finalizes the transition.
C25_RepeatedSignaturesCount ==
    [][\A t \in TransitionArgs, v \in ValidatorArgs :
          (validate_transition(t, v) /\ Position(t) # 0) =>
              LET i == Position(t)
                  signatures == pending_transitions[i].validator_signatures
                  mine == { k \in 1..Len(signatures) :
                              signatures[k].validator_id = v }
              IN /\ ret'.tag = "Json"
                 /\ ret'.value[1].validator_id = v
                 /\ IF Len(signatures) + 1 >= 3
                    THEN Finalizes(i)
                    ELSE pending_transitions' =
                            [pending_transitions EXCEPT
                                ![i].validator_signatures =
                                    Append(signatures, ret'.value[1])]
                 /\ Cardinality(mine) = 2 => Finalizes(i)
      ]_vars

\* A pending transition holds two signatures of one validator id, the second
\* one returned by the last call.
C25_Witness ==
    /\ ret.tag = "Json"
    /\ \E i \in 1..Len(pending_transitions) :
          /\ SignatureCount(i) = 2
          /\ pending_transitions[i].validator_signatures[1].validator_id
                = pending_transitions[i].validator_signatures[2].validator_id
          /\ ret.value = <<pending_transitions[i].validator_signatures[2]>>

FreshGenesis(state, p) ==
    /\ state.player_id = p
    /\ state.energy_level = 25
    /\ state.completed_quests = <<>>
    /\ state.governor_relationships = EmptyMap
    /\ state.reputation_scores = EmptyMap
    /\ state.sacred_items = <<>>
    /\ state.tradition_mastery =
          [t \in {"Enochian", "Hermetic_Qabalah"} |->
              IF t = "Enochian" THEN 10 ELSE 5]

\* C26: initialize_player_state with a canonical state in place (same or
\* other player id) makes a fresh genesis state canonical, appends it to the
\* history keeping the earlier entries, and keeps every pending transition;
\* a pending transition finalized afterwards is applied to the canonical
\* state of that moment.
C26_Reinitialize ==
    [][/\ \A p \in StoryPlayerIds :
             (initialize_player_state(p) /\ current_state # None) =>
                 /\ FreshGenesis(current_state'[1], p)
                 /\ state_history' = Append(state_history, current_state'[1])
                 /\ pending_transitions' = pending_transitions
       /\ \A t \in TransitionArgs, v \in ValidatorArgs :
             FinalizedBy(t, v) =>
                 /\ current_state'[1].player_id = current_state[1].player_id
                 /\ current_state'[1] =
                       apply_consequences(current_state[1],
                           pending_transitions[Position(t)].consequences)
      ]_vars

\* The canonical state is the fresh genesis state of player a, second in a
\* history that starts with another player, while a transition proposed on
\* the earlier canonical state is pending and has been signed twice since.
C26_Witness ==
    /\ Len(state_history) = 2
    /\ state_history[1].player_id # <<"a">>
    /\ current_state # None
    /\ FreshGenesis(current_state[1], <<"a">>)
    /\ \E i \in 1..Len(pending_transitions) :
          /\ pending_transitions[i].from_state_hash = state_history[1].state_hash
          /\ SignatureCount(i) = 2
          /\ pending_transitions[i].validator_signatures[2].validation_timestamp
                > pending_transitions[i].timestamp

RECURSIVE EnergySpent(_)
EnergySpent(quests) ==
    IF quests = <<>> THEN 0
    ELSE quest_registry[Head(quests)].required_energy + EnergySpent(Tail(quests))

\* C29: with no quest id registered twice, a player's energy_level is 25
\* minus the required_energy of all quests in active_quests and
\* completed_quests; energy never increases, and a successful start_quest
\* subtracts from an energy that covers the cost (no saturation).
C29_EnergyAccounting ==
    /\ [](\A p \in DOMAIN game_states :
             game_states[p].energy_level =
                 25 - EnergySpent(game_states[p].active_quests
                                    \o game_states[p].completed_quests))
    /\ [][/\ \A p \in DOMAIN game_states :
                game_states'[p].energy_level <= game_states[p].energy_level
          /\ \A p \in PlayerArgs, q \in QuestArgs :
                (start_quest(p, q) /\ ret'.tag = "Ok") =>
                    /\ game_states[p].energy_level
                          >= quest_registry[q].required_energy
                    /\ game_states'[p].energy_level =
                          game_states[p].energy_level
                              - quest_registry[q].required_energy
         ]_vars

\* A player with 5 energy left, two quests running and one completed.
C29_Witness ==
    \E p \in DOMAIN game_states :
        /\ game_states[p].energy_level = 5
        /\ Len(game_states[p].active_quests) = 2
        /\ Len(game_states[p].completed_quests) = 1

\* C30: a canonical state is the last history entry; the i-th history entry
\* (from 0) has timestamp 1642680000 + 600 * i, so the timestamps strictly
\* increase; the block height 800000 + history length never decreases.
C30_HistoryTimestamps ==
    /\ [](/\ current_state # None =>
                /\ state_history # <<>>
                /\ current_state[1] = state_history[Len(state_history)]
          /\ \A i \in 1..Len(state_history) :
                state_history[i].timestamp = 1642680000 + 600 * (i - 1)
          /\ \A i, j \in 1..Len(state_history) :
                i < j => state_history[i].timestamp < state_history[j].timestamp
          /\ get_current_block_height = 800000 + Len(state_history))
    /\ [][800000 + Len(state_history') >= get_current_block_height]_vars

\* Three history entries, the last one canonical and stamped 1642681200.
C30_Witness ==
    /\ Len(state_history) = 3
    /\ current_state = Some(state_history[3])
    /\ state_history[3].timestamp = 1642681200
    /\ state_history[3].reputation_scores # EmptyMap

====
